---- MODULE Spec2Model ----
(***************************************************************************)
(* CSV import pipeline of rybbit: the client-side CSVWorkerManager         *)
(* (client/src/lib/import/csv-worker-manager.ts) that filters and batches  *)
(* parsed rows and POSTs the batches, and the server-side handler          *)
(* batchImportEvents that ingests one batch per request.                   *)
(*                                                                         *)
(* Every `await` of the handler that touches the import session row, the   *)
(* event store or the quota usage is one action, so that requests of the   *)
(* same import interleave exactly where the code lets them.                *)
(***************************************************************************)
EXTENDS Integers, Sequences, FiniteSets, TLC

\* ---------------------------------------------------------------- bounds
\* Number of data rows the parser delivers at most.
MaxRows == 3
\* The batch size of the scaled pipeline (the source's is BATCH_SIZE).
ScaledBatchSize == 2
\* Largest remaining monthly capacity of the organization. Month "m2" has
\* exactly this much left, month "m1" anything from nothing to this much.
MaxCapacity == 1

\* The admission loop on its own: events per batch and remaining capacity
\* per month at most.
MaxTrialEvents == 4
MaxTrialCapacity == 3

\* ------------------------------------------------------------- constants
\* const BATCH_SIZE = 5000
BATCH_SIZE == 5000
\* z.array(...).min(1).max(10000) of batchImportRequestSchema
MinEvents == 1
MaxEvents == 10000

Null == "null"

\* Months of the quota window; created_at values are abstracted to the
\* month they fall in ("old" is a well-formed timestamp before the window,
\* "" a missing created_at).
Months == {"m1", "m2"}
Timestamps == {"", "old"} \cup Months

\* The rows the parser can deliver: created_at and whether the server-side
\* mapper keeps the event.
RowKinds ==
  { [created_at |-> t, valid |-> TRUE] : t \in Timestamps }
    \cup { [created_at |-> "m1", valid |-> FALSE] }

VARIABLES
  batchSize,     \* the value of BATCH_SIZE in this run
  \* --- CSVWorkerManager fields
  aborted, uploadInProgress, parsingComplete, quotaExceeded, currentBatch,
  \* --- environment of the manager
  parser,        \* "parsing" | "complete" | "error": Papa.parse's progress
  rows,          \* rows delivered to the step callback so far
  posted,        \* fetch() calls issued, in order: [events, isLastBatch]
  fetches,       \* per posted request: "awaiting" | "responded" | "rejected"
  completions,   \* onComplete invocations, in order: [success, message]
  cancelled,     \* terminate() was called from outside
  \* --- server
  session,       \* the importStatus row: [status, platform, importedEvents]
  store,         \* events inserted into the ClickHouse events table
  monthlyLimit,  \* remaining capacity per month before the import
  requests,      \* per posted request: the handler's position and locals
  \* --- functions checked on their own
  trial          \* the arguments of one call and, once made, its result

mgrVars == <<aborted, uploadInProgress, parsingComplete, quotaExceeded, currentBatch>>
envVars == <<parser, rows, posted, fetches, completions, cancelled>>
srvVars == <<session, store, monthlyLimit, requests>>
vars == <<batchSize, mgrVars, envVars, srvVars, trial>>

\* ------------------------------------------------------------ helpers
Range(s) == { s[i] : i \in 1..Len(s) }

\* The manager together with the calls it has made, as one value the
\* methods below transform.
Mgr ==
  [ aborted |-> aborted, uploadInProgress |-> uploadInProgress,
    parsingComplete |-> parsingComplete, quotaExceeded |-> quotaExceeded,
    currentBatch |-> currentBatch, posted |-> posted,
    completions |-> completions ]

\* No function is being checked on its own.
NoTrial == [fn |-> Null]

\* reply.status = 0: the handler has not replied yet.
NoReply ==
  [ status |-> 0, ok |-> FALSE, error |-> Null, importedCount |-> 0,
    quotaExceeded |-> FALSE ]

\* issuedAlone records whether every earlier fetch had settled when this
\* one was issued.
NewRequest ==
  [ pc |-> "sent", importRecord |-> [status |-> Null, platform |-> Null],
    transformedEvents |-> <<>>, skippedDueToQuota |-> 0, reply |-> NoReply,
    issuedAlone |-> \A j \in DOMAIN fetches : fetches[j] # "awaiting" ]

\* Install the manager value m; every fetch it issued gets a request in
\* flight and a pending continuation.
SetMgr(m) ==
  /\ aborted' = m.aborted
  /\ uploadInProgress' = m.uploadInProgress
  /\ parsingComplete' = m.parsingComplete
  /\ quotaExceeded' = m.quotaExceeded
  /\ currentBatch' = m.currentBatch
  /\ posted' = m.posted
  /\ completions' = m.completions
  /\ fetches' = fetches \o [i \in 1..(Len(m.posted) - Len(posted)) |-> "awaiting"]
  /\ requests' = requests \o [i \in 1..(Len(m.posted) - Len(posted)) |-> NewRequest]

\* The same, for the continuation of request i, which settles its fetch.
SetMgrSettled(m, i, how) ==
  /\ aborted' = m.aborted
  /\ uploadInProgress' = m.uploadInProgress
  /\ parsingComplete' = m.parsingComplete
  /\ quotaExceeded' = m.quotaExceeded
  /\ currentBatch' = m.currentBatch
  /\ posted' = m.posted
  /\ completions' = m.completions
  /\ fetches' = [fetches EXCEPT ![i] = how]
  /\ requests' = requests

\* ------------------------------------------------- CSVWorkerManager
onComplete(m, success, message) ==
  [m EXCEPT !.completions = Append(@, [success |-> success, message |-> message])]

isDateInRange(dateStr) == dateStr \in Months

\* --- the date filter on timestamps as they stand in the file. A string is
\* the sequence of its characters; a DateTime is the number of its day and
\* the millisecond within the day, or invalid.
DigitValue ==
  "0" :> 0 @@ "1" :> 1 @@ "2" :> 2 @@ "3" :> 3 @@ "4" :> 4 @@
  "5" :> 5 @@ "6" :> 6 @@ "7" :> 7 @@ "8" :> 8 @@ "9" :> 9

RECURSIVE ToNumber(_)
ToNumber(chars) ==
  IF chars = <<>> THEN 0
  ELSE 10 * ToNumber(SubSeq(chars, 1, Len(chars) - 1)) + DigitValue[chars[Len(chars)]]

IsDigits(chars) == \A k \in DOMAIN chars : chars[k] \in DOMAIN DigitValue

isLeapYear(year) == year % 4 = 0 /\ (year % 100 # 0 \/ year % 400 = 0)

daysInMonth(year, month) ==
  IF month = 2 THEN (IF isLeapYear(year) THEN 29 ELSE 28)
  ELSE IF month \in {4, 6, 9, 11} THEN 30 ELSE 31

RECURSIVE daysBeforeMonth(_, _)
daysBeforeMonth(year, month) ==
  IF month = 1 THEN 0
  ELSE daysBeforeMonth(year, month - 1) + daysInMonth(year, month - 1)

\* The number of the day in the proleptic Gregorian calendar.
dayNumber(year, month, day) ==
  LET y == year - 1
  IN 365 * y + (y \div 4) - (y \div 100) + (y \div 400)
       + daysBeforeMonth(year, month) + day

InvalidDateTime == [isValid |-> FALSE, day |-> 0, ms |-> 0]

\* DateTime.fromFormat(text, "yyyy-MM-dd", { zone: "utc" }), for years of
\* four digits
fromFormatDate(text) ==
  IF /\ Len(text) = 10
     /\ text[5] = "-" /\ text[8] = "-"
     /\ IsDigits(SubSeq(text, 1, 4)) /\ IsDigits(SubSeq(text, 6, 7))
     /\ IsDigits(SubSeq(text, 9, 10))
    THEN LET year == ToNumber(SubSeq(text, 1, 4))
             month == ToNumber(SubSeq(text, 6, 7))
             day == ToNumber(SubSeq(text, 9, 10))
         IN IF month \in 1..12 /\ day >= 1 /\ day <= daysInMonth(year, month)
              THEN [isValid |-> TRUE, day |-> dayNumber(year, month, day), ms |-> 0]
              ELSE InvalidDateTime
    ELSE InvalidDateTime

\* DateTime.fromFormat(text, "yyyy-MM-dd HH:mm:ss", { zone: "utc" }), for
\* hours other than 24
fromFormatDateTime(text) ==
  IF /\ Len(text) = 19
     /\ text[11] = " " /\ text[14] = ":" /\ text[17] = ":"
     /\ IsDigits(SubSeq(text, 12, 13)) /\ IsDigits(SubSeq(text, 15, 16))
     /\ IsDigits(SubSeq(text, 18, 19))
    THEN LET date == fromFormatDate(SubSeq(text, 1, 10))
             hour == ToNumber(SubSeq(text, 12, 13))
             minute == ToNumber(SubSeq(text, 15, 16))
             second == ToNumber(SubSeq(text, 18, 19))
         IN IF date.isValid /\ hour <= 23 /\ minute <= 59 /\ second <= 59
              THEN [date EXCEPT !.ms = ((hour * 60 + minute) * 60 + second) * 1000]
              ELSE InvalidDateTime
    ELSE InvalidDateTime

startOfDay(dateTime) == IF dateTime.isValid THEN [dateTime EXCEPT !.ms = 0] ELSE dateTime

endOfDay(dateTime) ==
  IF dateTime.isValid THEN [dateTime EXCEPT !.ms = 24 * 60 * 60 * 1000 - 1] ELSE dateTime

\* a < b on valid DateTimes
Before(a, b) == a.day < b.day \/ (a.day = b.day /\ a.ms < b.ms)

\* Mutant: the start of the earliest day is taken as outside the range.
isDateInRangeOf_ExclusiveStart(dateStr, earliestAllowedDate, latestAllowedDate) ==
  LET createdAt == fromFormatDateTime(dateStr)
  IN IF ~createdAt.isValid THEN FALSE
     ELSE IF ~Before(earliestAllowedDate, createdAt) THEN FALSE
     ELSE IF Before(latestAllowedDate, createdAt) THEN FALSE
     ELSE TRUE

\* isDateInRange with the fields it reads as arguments.
isDateInRangeOf(dateStr, earliestAllowedDate, latestAllowedDate) ==
  LET createdAt == fromFormatDateTime(dateStr)
  IN IF ~createdAt.isValid THEN FALSE
     ELSE IF Before(createdAt, earliestAllowedDate) THEN FALSE
     ELSE IF Before(latestAllowedDate, createdAt) THEN FALSE
     ELSE TRUE

\* Mutant: terminate() forgets to set the flag.
terminate_Noop(m) == m

terminate(m) == [m EXCEPT !.aborted = TRUE]

\* Mutant: checkCompletion() never reports.
checkCompletion_Silent(m) == m

checkCompletion(m) ==
  IF m.parsingComplete /\ ~m.uploadInProgress /\ ~m.quotaExceeded
    THEN onComplete(m, TRUE, "Import completed successfully")
    ELSE m

\* The synchronous part of uploadBatch, up to the await of fetch().
uploadBatch(m, events, isLastBatch) ==
  IF m.quotaExceeded THEN m
  ELSE IF Len(events) = 0 /\ ~isLastBatch THEN m
  ELSE [m EXCEPT !.uploadInProgress = TRUE,
                 !.posted = Append(@, [events |-> events, isLastBatch |-> isLastBatch])]

\* Mutant: no request for an empty final batch.
sendBatch_DropsEmptyFinal(m, isLastBatch) ==
  IF Len(m.currentBatch) > 0
    THEN uploadBatch([m EXCEPT !.currentBatch = <<>>], m.currentBatch, isLastBatch)
  ELSE m

\* Mutant: the batch handed to uploadBatch is not taken out of currentBatch.
sendBatch_KeepsBatch(m, isLastBatch) ==
  IF Len(m.currentBatch) > 0
    THEN uploadBatch(m, m.currentBatch, isLastBatch)
  ELSE IF isLastBatch
    THEN uploadBatch(m, <<>>, isLastBatch)
  ELSE m

sendBatch(m, isLastBatch) ==
  IF Len(m.currentBatch) > 0
    THEN uploadBatch([m EXCEPT !.currentBatch = <<>>], m.currentBatch, isLastBatch)
  ELSE IF isLastBatch
    THEN uploadBatch(m, <<>>, isLastBatch)
  ELSE m

\* Mutant: rows are batched without the date range check.
handleParsedRow_NoDateFilter(m, row, idx) ==
  LET umamiEvent == [idx |-> idx, created_at |-> row.created_at, valid |-> row.valid]
  IN IF umamiEvent.created_at = "" THEN m
     ELSE LET m1 == [m EXCEPT !.currentBatch = Append(@, umamiEvent)]
          IN IF Len(m1.currentBatch) >= batchSize THEN sendBatch(m1, FALSE) ELSE m1

handleParsedRow(m, row, idx) ==
  LET umamiEvent == [idx |-> idx, created_at |-> row.created_at, valid |-> row.valid]
  IN IF umamiEvent.created_at = "" THEN m
     ELSE IF ~isDateInRange(umamiEvent.created_at) THEN m
     ELSE LET m1 == [m EXCEPT !.currentBatch = Append(@, umamiEvent)]
          IN IF Len(m1.currentBatch) >= batchSize THEN sendBatch(m1, FALSE) ELSE m1

handleParseComplete(m) ==
  LET m1 == sendBatch([m EXCEPT !.parsingComplete = TRUE], TRUE)
  IN IF ~m1.uploadInProgress THEN checkCompletion(m1) ELSE m1

handleError(m, message) == onComplete(m, FALSE, message)

\* Mutant: a quotaExceeded response is handled like any other success.
uploadBatchResponse_QuotaNoStop(m, reply) ==
  IF ~reply.ok
    THEN [terminate(onComplete(m, FALSE, "Upload failed")) EXCEPT !.uploadInProgress = FALSE]
  ELSE checkCompletion([m EXCEPT !.uploadInProgress = FALSE])

\* The continuation of uploadBatch after the await, for a response.
uploadBatchResponse(m, reply) ==
  IF ~reply.ok
    THEN [terminate(onComplete(m, FALSE, "Upload failed")) EXCEPT !.uploadInProgress = FALSE]
  ELSE IF reply.quotaExceeded
    THEN [onComplete([m EXCEPT !.quotaExceeded = TRUE, !.aborted = TRUE], TRUE, "quota")
            EXCEPT !.uploadInProgress = FALSE]
  ELSE checkCompletion([m EXCEPT !.uploadInProgress = FALSE])

\* The continuation of uploadBatch when fetch() rejects.
uploadBatchRejected(m) ==
  [terminate(onComplete(m, FALSE, "Upload failed")) EXCEPT !.uploadInProgress = FALSE]

\* --- callbacks Papa.parse runs on the main thread
\* Mutant: the step callback does not look at the aborted flag.
StepOf_IgnoresAborted(kinds, limit) ==
  /\ parser = "parsing"
  /\ Len(rows) < limit
  /\ \E row \in kinds :
       /\ rows' = Append(rows, row)
       /\ IF quotaExceeded
            THEN SetMgr(Mgr)
            ELSE SetMgr(handleParsedRow(Mgr, row, Len(rows) + 1))
  /\ UNCHANGED <<batchSize, trial, parser, cancelled, session, store, monthlyLimit>>

StepOf(kinds, limit) ==
  /\ parser = "parsing"
  /\ Len(rows) < limit
  /\ \E row \in kinds :
       /\ rows' = Append(rows, row)
       /\ IF aborted \/ quotaExceeded
            THEN SetMgr(Mgr)
            ELSE SetMgr(handleParsedRow(Mgr, row, Len(rows) + 1))
  /\ UNCHANGED <<batchSize, trial, parser, cancelled, session, store, monthlyLimit>>

Step == StepOf(RowKinds, MaxRows)

Complete ==
  /\ parser = "parsing"
  /\ parser' = "complete"
  /\ IF aborted THEN SetMgr(Mgr) ELSE SetMgr(handleParseComplete(Mgr))
  /\ UNCHANGED <<batchSize, trial, rows, cancelled, session, store, monthlyLimit>>

ParseError ==
  /\ parser = "parsing"
  /\ parser' = "error"
  /\ IF aborted THEN SetMgr(Mgr) ELSE SetMgr(handleError(Mgr, "parse error"))
  /\ UNCHANGED <<batchSize, trial, rows, cancelled, session, store, monthlyLimit>>

\* terminate() called by the owner of the manager (unmount, cancel).
Terminate ==
  /\ ~cancelled
  /\ cancelled' = TRUE
  /\ SetMgr(terminate(Mgr))
  /\ UNCHANGED <<batchSize, trial, parser, rows, session, store, monthlyLimit>>

\* --- the continuation of uploadBatch, one per fetch()
HandleResponse(i) ==
  /\ fetches[i] = "awaiting"
  /\ requests[i].pc = "done"
  /\ SetMgrSettled(uploadBatchResponse(Mgr, requests[i].reply), i, "responded")
  /\ UNCHANGED <<batchSize, trial, parser, rows, cancelled, session, store, monthlyLimit>>

\* fetch() rejects (connection lost, transport timeout); whatever the
\* server does with the request goes on.
NetworkError(i) ==
  /\ fetches[i] = "awaiting"
  /\ SetMgrSettled(uploadBatchRejected(Mgr), i, "rejected")
  /\ UNCHANGED <<batchSize, trial, parser, rows, cancelled, session, store, monthlyLimit>>

\* ------------------------------------------------- batchImportEvents
ErrorReply(status, error) ==
  [ status |-> status, ok |-> FALSE, error |-> error, importedCount |-> 0,
    quotaExceeded |-> FALSE ]

SuccessReply(importedCount, exceeded) ==
  [ status |-> 200, ok |-> TRUE, error |-> Null, importedCount |-> importedCount,
    quotaExceeded |-> exceeded ]

\* Mutant: the events array has no upper bound.
schemaAccepts_NoMax(body) == Len(body.events) >= MinEvents

\* batchImportRequestSchema: the bounds of the events array
schemaAccepts(body) ==
  /\ Len(body.events) >= MinEvents
  /\ Len(body.events) <= MaxEvents

Reply(i, reply) ==
  requests' = [requests EXCEPT ![i].pc = "done", ![i].reply = reply]

Goto(i, pc) == requests' = [requests EXCEPT ![i].pc = pc]

\* ImportQuotaTracker.create: the remaining capacity of each month of the
\* window, from the usage at the time of the call.
QuotaTrackerCreate ==
  [mo \in Months |-> monthlyLimit[mo] - Cardinality({e \in store : e.created_at = mo})]

canImportEvent(tracker, created_at) ==
  /\ created_at \in DOMAIN tracker
  /\ tracker[created_at] > 0

\* Mutant: the loop keeps every event that has a creation timestamp,
\* without asking the tracker.
admit_SkipsTracker(events, tracker, eventsWithinQuota, skippedDueToQuota) ==
  [ eventsWithinQuota |-> eventsWithinQuota \o SelectSeq(events, LAMBDA e : e.created_at # ""),
    skippedDueToQuota |-> skippedDueToQuota ]

\* Mutant: the loop ends at the first event the tracker refuses.
RECURSIVE admit_StopsAtRefusal(_, _, _, _)
admit_StopsAtRefusal(events, tracker, eventsWithinQuota, skippedDueToQuota) ==
  IF events = <<>>
    THEN [eventsWithinQuota |-> eventsWithinQuota, skippedDueToQuota |-> skippedDueToQuota]
  ELSE LET event == Head(events)
       IN IF event.created_at = ""
            THEN admit_StopsAtRefusal(Tail(events), tracker, eventsWithinQuota,
                                      skippedDueToQuota)
          ELSE IF canImportEvent(tracker, event.created_at)
            THEN admit_StopsAtRefusal(Tail(events),
                                      [tracker EXCEPT ![event.created_at] = @ - 1],
                                      Append(eventsWithinQuota, event), skippedDueToQuota)
          ELSE [eventsWithinQuota |-> eventsWithinQuota,
                skippedDueToQuota |-> skippedDueToQuota + Len(events)]

\* The admission loop over the events of the batch.
RECURSIVE admit(_, _, _, _)
admit(events, tracker, eventsWithinQuota, skippedDueToQuota) ==
  IF events = <<>>
    THEN [eventsWithinQuota |-> eventsWithinQuota, skippedDueToQuota |-> skippedDueToQuota]
  ELSE LET event == Head(events)
       IN IF event.created_at = ""
            THEN admit(Tail(events), tracker, eventsWithinQuota, skippedDueToQuota)
          ELSE IF canImportEvent(tracker, event.created_at)
            THEN admit(Tail(events), [tracker EXCEPT ![event.created_at] = @ - 1],
                       Append(eventsWithinQuota, event), skippedDueToQuota)
          ELSE admit(Tail(events), tracker, eventsWithinQuota, skippedDueToQuota + 1)

\* UmamiImportMapper.transform: keeps the events the mapper can convert.
transform(events) == SelectSeq(events, LAMBDA e : e.valid)

\* Mutant: the check for a completed import is missing.
Receive_NoCompletedCheck(i) ==
  /\ requests[i].pc = "sent"
  /\ \E userHasAccess \in BOOLEAN :
       IF ~schemaAccepts(posted[i]) THEN Reply(i, ErrorReply(400, "Validation error"))
       ELSE IF ~userHasAccess THEN Reply(i, ErrorReply(403, "Forbidden"))
       ELSE IF session.status = "failed"
         THEN Reply(i, ErrorReply(400, "Import has failed"))
       ELSE requests' = [requests EXCEPT
              ![i].importRecord = [status |-> session.status, platform |-> session.platform],
              ![i].pc = IF session.status = "pending" THEN "setProcessing"
                        ELSE IF session.platform = Null THEN "detect"
                        ELSE "quota"]
  /\ UNCHANGED <<batchSize, trial, mgrVars, envVars, session, store, monthlyLimit>>

\* What the caller of the endpoint brings along: whether the path
\* parameters are well-formed, and what getImportById finds for them. The
\* client of the pipeline posts to the import it was started for; any other
\* caller may name any import.
OwnImport == { [paramsValid |-> TRUE, lookup |-> "found"] }

AnyCaller == [paramsValid : BOOLEAN, lookup : {"found", "missing", "otherSite"}]

\* safeParse, getUserHasAdminAccessToSite, getImportById and the checks on
\* the loaded record.
ReceiveOf(i, callers) ==
  /\ requests[i].pc = "sent"
  /\ \E userHasAccess \in BOOLEAN, caller \in callers :
       IF ~caller.paramsValid \/ ~schemaAccepts(posted[i])
         THEN Reply(i, ErrorReply(400, "Validation error"))
       ELSE IF ~userHasAccess THEN Reply(i, ErrorReply(403, "Forbidden"))
       ELSE IF caller.lookup = "missing"
         THEN Reply(i, ErrorReply(404, "Import not found"))
       ELSE IF caller.lookup = "otherSite"
         THEN Reply(i, ErrorReply(400, "Import does not belong to this site"))
       ELSE IF session.status = "completed"
         THEN Reply(i, ErrorReply(400, "Import already completed"))
       ELSE IF session.status = "failed"
         THEN Reply(i, ErrorReply(400, "Import has failed"))
       ELSE requests' = [requests EXCEPT
              ![i].importRecord = [status |-> session.status, platform |-> session.platform],
              ![i].pc = IF session.status = "pending" THEN "setProcessing"
                        ELSE IF session.platform = Null THEN "detect"
                        ELSE "quota"]
  /\ UNCHANGED <<batchSize, trial, mgrVars, envVars, session, store, monthlyLimit>>

Receive(i) == ReceiveOf(i, OwnImport)

ReceiveAny(i) == ReceiveOf(i, AnyCaller)

\* Mutant: the handler goes on without the pending -> processing write.
SetProcessing_KeepsStatus(i) ==
  /\ requests[i].pc = "setProcessing"
  /\ Goto(i, IF requests[i].importRecord.platform = Null THEN "detect" ELSE "quota")
  /\ UNCHANGED <<batchSize, trial, mgrVars, envVars, session, store, monthlyLimit>>

\* await updateImportStatus(importId, "processing")
SetProcessing(i) ==
  /\ requests[i].pc = "setProcessing"
  /\ session' = [session EXCEPT !.status = "processing"]
  /\ Goto(i, IF requests[i].importRecord.platform = Null THEN "detect" ELSE "quota")
  /\ UNCHANGED <<batchSize, trial, mgrVars, envVars, store, monthlyLimit>>

\* The first event passed umamiEventKeyOnlySchema in Receive, so the
\* detection succeeds; await db.update(importStatus).set({ platform }).
DetectPlatform(i) ==
  /\ requests[i].pc = "detect"
  /\ session' = [session EXCEPT !.platform = "umami"]
  /\ Goto(i, "quota")
  /\ UNCHANGED <<batchSize, trial, mgrVars, envVars, store, monthlyLimit>>

\* The site lookup, ImportQuotaTracker.create, the admission loop and
\* transform: up to the next await that writes.
CheckQuotaOf(i, siteLookups) ==
  /\ requests[i].pc = "quota"
  /\ \E siteFound \in siteLookups :
       LET a == admit(posted[i].events, QuotaTrackerCreate, <<>>, 0)
           transformedEvents == transform(a.eventsWithinQuota)
           isLastBatch == posted[i].isLastBatch
       IN IF ~siteFound
            THEN Reply(i, ErrorReply(404, "Site not found"))
          ELSE IF Len(a.eventsWithinQuota) = 0
            THEN requests' = [requests EXCEPT
                   ![i].reply = SuccessReply(0, TRUE),
                   ![i].pc = IF isLastBatch THEN "finalize" ELSE "done"]
          ELSE IF Len(transformedEvents) = 0
            THEN requests' = [requests EXCEPT
                   ![i].reply = SuccessReply(0, FALSE),
                   ![i].pc = IF isLastBatch THEN "finalize" ELSE "done"]
          ELSE requests' = [requests EXCEPT
                   ![i].transformedEvents = transformedEvents,
                   ![i].skippedDueToQuota = a.skippedDueToQuota,
                   ![i].pc = "insert"]
  /\ UNCHANGED <<batchSize, trial, mgrVars, envVars, session, store, monthlyLimit>>

\* The site of a running import of the pipeline exists.
CheckQuota(i) == CheckQuotaOf(i, {TRUE})

CheckQuotaAny(i) == CheckQuotaOf(i, BOOLEAN)

\* await clickhouse.insert(...): all rows, or a throw and none.
Insert(i) ==
  /\ requests[i].pc = "insert"
  /\ \E insertThrows \in BOOLEAN :
       IF insertThrows
         THEN Goto(i, "fail") /\ store' = store
         ELSE Goto(i, "progress") /\ store' = store \cup Range(requests[i].transformedEvents)
  /\ UNCHANGED <<batchSize, trial, mgrVars, envVars, session, monthlyLimit>>

\* Mutant: a batch with events skipped for quota is answered with the
\* quotaExceeded flag.
UpdateProgress_FlagsSkipped(i) ==
  /\ requests[i].pc = "progress"
  /\ session' = [session EXCEPT
         !.importedEvents = @ + Len(requests[i].transformedEvents)]
  /\ requests' = [requests EXCEPT
         ![i].reply = SuccessReply(Len(requests[i].transformedEvents),
                                   requests[i].skippedDueToQuota > 0),
         ![i].pc = IF posted[i].isLastBatch THEN "finalize" ELSE "done"]
  /\ UNCHANGED <<batchSize, trial, mgrVars, envVars, store, monthlyLimit>>

\* await updateImportProgress(importId, transformedEvents.length), inside
\* the try block of the insert: when the update of the importStatus row
\* rejects, the same catch block runs, with the events already inserted.
UpdateProgress(i) ==
  /\ requests[i].pc = "progress"
  /\ \E updateThrows \in BOOLEAN :
       IF updateThrows
         THEN Goto(i, "fail") /\ session' = session
         ELSE /\ session' = [session EXCEPT
                   !.importedEvents = @ + Len(requests[i].transformedEvents)]
              /\ requests' = [requests EXCEPT
                   ![i].reply = SuccessReply(Len(requests[i].transformedEvents), FALSE),
                   ![i].pc = IF posted[i].isLastBatch THEN "finalize" ELSE "done"]
  /\ UNCHANGED <<batchSize, trial, mgrVars, envVars, store, monthlyLimit>>

\* Mutant: the reply to a last batch is sent without the status write.
Finalize_KeepsStatus(i) ==
  /\ requests[i].pc = "finalize"
  /\ Goto(i, "done")
  /\ UNCHANGED <<batchSize, trial, mgrVars, envVars, session, store, monthlyLimit>>

\* await updateImportStatus(importId, "completed", ...), then the reply
Finalize(i) ==
  /\ requests[i].pc = "finalize"
  /\ session' = [session EXCEPT !.status = "completed"]
  /\ Goto(i, "done")
  /\ UNCHANGED <<batchSize, trial, mgrVars, envVars, store, monthlyLimit>>

\* Mutant: the catch block answers 500 without marking the import failed.
MarkFailed_KeepsStatus(i) ==
  /\ requests[i].pc = "fail"
  /\ Reply(i, ErrorReply(500, "Failed to insert events"))
  /\ UNCHANGED <<batchSize, trial, mgrVars, envVars, session, store, monthlyLimit>>

\* catch (insertError): await updateImportStatus(importId, "failed", ...)
MarkFailed(i) ==
  /\ requests[i].pc = "fail"
  /\ session' = [session EXCEPT !.status = "failed"]
  /\ Reply(i, ErrorReply(500, "Failed to insert events"))
  /\ UNCHANGED <<batchSize, trial, mgrVars, envVars, store, monthlyLimit>>

\* ------------------------------------------------------ specification
InitOf(size, limits) ==
  /\ batchSize = size
  /\ aborted = FALSE
  /\ uploadInProgress = FALSE
  /\ parsingComplete = FALSE
  /\ quotaExceeded = FALSE
  /\ currentBatch = <<>>
  /\ parser = "parsing"
  /\ rows = <<>>
  /\ posted = <<>>
  /\ fetches = <<>>
  /\ completions = <<>>
  /\ cancelled = FALSE
  /\ session = [status |-> "pending", platform |-> Null, importedEvents |-> 0]
  /\ store = {}
  /\ monthlyLimit \in limits
  /\ requests = <<>>
  /\ trial = NoTrial

Init ==
  InitOf(ScaledBatchSize, { [m1 |-> c, m2 |-> MaxCapacity] : c \in 0..MaxCapacity })

Next ==
  \/ Step
  \/ Complete
  \/ ParseError
  \/ Terminate
  \/ \E i \in DOMAIN posted : HandleResponse(i)
  \/ \E i \in DOMAIN posted : NetworkError(i)
  \/ \E i \in DOMAIN posted : Receive(i)
  \/ \E i \in DOMAIN posted : SetProcessing(i)
  \/ \E i \in DOMAIN posted : DetectPlatform(i)
  \/ \E i \in DOMAIN posted : CheckQuota(i)
  \/ \E i \in DOMAIN posted : Insert(i)
  \/ \E i \in DOMAIN posted : UpdateProgress(i)
  \/ \E i \in DOMAIN posted : Finalize(i)
  \/ \E i \in DOMAIN posted : MarkFailed(i)

Spec == Init /\ [][Next]_vars

\* --- the pipeline with its scheduling. Papa.parse ends every parse with
\* the complete or the error callback; the handler runs each request it was
\* given from one await to the next until it has replied; every fetch()
\* settles, with the reply or with a rejection. The owner may call
\* terminate() at any time or never.
MaxPosts == (MaxRows \div ScaledBatchSize) + 1

ParserEnds == Complete \/ ParseError

HandlerStep(i) ==
  /\ i \in DOMAIN posted
  /\ \/ Receive(i)
     \/ SetProcessing(i)
     \/ DetectPlatform(i)
     \/ CheckQuota(i)
     \/ Insert(i)
     \/ UpdateProgress(i)
     \/ Finalize(i)
     \/ MarkFailed(i)

FetchSettles(i) ==
  /\ i \in DOMAIN posted
  /\ (HandleResponse(i) \/ NetworkError(i))

Fairness ==
  /\ WF_vars(ParserEnds)
  /\ \A i \in 1..MaxPosts : WF_vars(HandlerStep(i)) /\ WF_vars(FetchSettles(i))

\* The rows of the fair runs: without created_at, or of the month m1 (which
\* may have no capacity left), kept or dropped by the mapper.
LiveKinds == { row \in RowKinds : row.created_at \in {"", "m1"} }

StepLive == StepOf(LiveKinds, MaxRows)

NextLive ==
  \/ StepLive
  \/ Complete
  \/ ParseError
  \/ Terminate
  \/ \E i \in DOMAIN posted : HandleResponse(i)
  \/ \E i \in DOMAIN posted : NetworkError(i)
  \/ \E i \in DOMAIN posted : Receive(i)
  \/ \E i \in DOMAIN posted : SetProcessing(i)
  \/ \E i \in DOMAIN posted : DetectPlatform(i)
  \/ \E i \in DOMAIN posted : CheckQuota(i)
  \/ \E i \in DOMAIN posted : Insert(i)
  \/ \E i \in DOMAIN posted : UpdateProgress(i)
  \/ \E i \in DOMAIN posted : Finalize(i)
  \/ \E i \in DOMAIN posted : MarkFailed(i)

SpecLive == Init /\ [][NextLive]_vars /\ Fairness

\* The batcher alone, at the scaled and at the source's batch size: a file
\* of up to two and a half batches of accepted rows (12,500 rows at 5000),
\* the responses never arriving.
AcceptedRow == [created_at |-> "m1", valid |-> TRUE]

StepAccepted == StepOf({AcceptedRow}, (5 * batchSize) \div 2)

InitBatch ==
  \E size \in {ScaledBatchSize, BATCH_SIZE} :
    InitOf(size, { [m1 |-> MaxCapacity, m2 |-> MaxCapacity] })

NextBatch == StepAccepted \/ Complete

SpecBatch == InitBatch /\ [][NextBatch]_vars

\* The handler alone, called directly: up to MaxRows events of any kinds,
\* split over two requests that may overlap, each flagged or not, by any
\* caller.
Numbered(events) ==
  [k \in 1..Len(events) |->
     [idx |-> k, created_at |-> events[k].created_at, valid |-> events[k].valid]]

\* The order of the events inside a batch matters to the admission loop
\* only, which is run on every order on its own; here the events come in
\* one order per combination of kinds.
KindRank(row) ==
  CASE row.created_at = "" -> 1
    [] row.created_at = "old" -> 2
    [] row.created_at = "m1" /\ row.valid -> 3
    [] row.created_at = "m1" /\ ~row.valid -> 4
    [] OTHER -> 5

Sorted(events) ==
  \A k \in 1..(Len(events) - 1) : KindRank(events[k]) <= KindRank(events[k + 1])

\* One event more than the schema allows.
OversizedBatch == Numbered([k \in 1..(MaxEvents + 1) |-> AcceptedRow])

InitServer ==
  /\ batchSize = ScaledBatchSize
  /\ aborted = FALSE
  /\ uploadInProgress = FALSE
  /\ parsingComplete = FALSE
  /\ quotaExceeded = FALSE
  /\ currentBatch = <<>>
  /\ parser = "complete"
  /\ rows = <<>>
  /\ \/ \E n \in 0..MaxRows :
          \E events \in { e \in [1..n -> RowKinds] : Sorted(e) },
             cut \in 0..n, last1, last2 \in BOOLEAN :
            posted = << [events |-> SubSeq(Numbered(events), 1, cut), isLastBatch |-> last1],
                        [events |-> SubSeq(Numbered(events), cut + 1, n), isLastBatch |-> last2] >>
     \/ posted = << [events |-> OversizedBatch, isLastBatch |-> FALSE],
                    [events |-> << [idx |-> MaxEvents + 2, created_at |-> "m1",
                                    valid |-> TRUE] >>,
                     isLastBatch |-> TRUE] >>
  /\ fetches = <<"awaiting", "awaiting">>
  /\ completions = <<>>
  /\ cancelled = FALSE
  /\ session = [status |-> "pending", platform |-> Null, importedEvents |-> 0]
  /\ store = {}
  /\ monthlyLimit \in { [m1 |-> c, m2 |-> MaxCapacity] : c \in 0..MaxCapacity }
  /\ requests = << [NewRequest EXCEPT !.issuedAlone = TRUE],
                   [NewRequest EXCEPT !.issuedAlone = FALSE] >>
  /\ trial = NoTrial

NextServer ==
  \/ \E i \in DOMAIN posted : ReceiveAny(i)
  \/ \E i \in DOMAIN posted : SetProcessing(i)
  \/ \E i \in DOMAIN posted : DetectPlatform(i)
  \/ \E i \in DOMAIN posted : CheckQuotaAny(i)
  \/ \E i \in DOMAIN posted : Insert(i)
  \/ \E i \in DOMAIN posted : UpdateProgress(i)
  \/ \E i \in DOMAIN posted : Finalize(i)
  \/ \E i \in DOMAIN posted : MarkFailed(i)

SpecServer == InitServer /\ [][NextServer]_vars

\* The admission loop alone: one batch of events of any timestamps, in
\* any order, against one snapshot of the tracker.
PipelineIdle ==
  /\ batchSize = ScaledBatchSize
  /\ aborted = FALSE
  /\ uploadInProgress = FALSE
  /\ parsingComplete = FALSE
  /\ quotaExceeded = FALSE
  /\ currentBatch = <<>>
  /\ parser = "complete"
  /\ rows = <<>>
  /\ posted = <<>>
  /\ fetches = <<>>
  /\ completions = <<>>
  /\ cancelled = FALSE
  /\ session = [status |-> "pending", platform |-> Null, importedEvents |-> 0]
  /\ store = {}
  /\ monthlyLimit = [m1 |-> MaxCapacity, m2 |-> MaxCapacity]
  /\ requests = <<>>

InitAdmit ==
  /\ PipelineIdle
  /\ \E n \in 0..MaxTrialEvents :
       \E events \in [1..n -> { [created_at |-> t, valid |-> TRUE] : t \in Timestamps }],
          tracker \in [Months -> 0..MaxTrialCapacity] :
         trial = [fn |-> "admit", events |-> Numbered(events), tracker |-> tracker,
                  called |-> FALSE, result |-> admit(<<>>, tracker, <<>>, 0)]

AdmitBatch ==
  /\ trial.fn = "admit"
  /\ ~trial.called
  /\ trial' = [trial EXCEPT !.called = TRUE,
                            !.result = admit(trial.events, trial.tracker, <<>>, 0)]
  /\ UNCHANGED <<batchSize, mgrVars, envVars, srvVars>>

SpecAdmit == InitAdmit /\ [][AdmitBatch]_vars

\* The date filter alone: timestamps as a file can hold them, written out
\* from a date and a time of day that exist or do not, or not of the
\* format at all, against windows of allowed days.
DigitChar == <<"0", "1", "2", "3", "4", "5", "6", "7", "8", "9">>

pad2(n) == << DigitChar[((n \div 10) % 10) + 1], DigitChar[(n % 10) + 1] >>

pad4(n) == pad2(n \div 100) \o pad2(n % 100)

formatDate(date) == pad4(date.y) \o <<"-">> \o pad2(date.m) \o <<"-">> \o pad2(date.d)

formatDateTime(date, time) ==
  formatDate(date) \o <<" ">> \o pad2(time.h) \o <<":">> \o pad2(time.mi)
    \o <<":">> \o pad2(time.s)

Date(y, m, d, real) == [y |-> y, m |-> m, d |-> d, real |-> real]

Time(h, mi, s, real) == [h |-> h, mi |-> mi, s |-> s, real |-> real]

\* Calendar dates, with whether the calendar has them.
TrialDates ==
  { Date(2023, 12, 31, TRUE), Date(2024, 1, 1, TRUE), Date(2024, 1, 15, TRUE),
    Date(2024, 1, 31, TRUE), Date(2024, 2, 1, TRUE), Date(2024, 2, 29, TRUE),
    Date(2024, 3, 1, TRUE), Date(2000, 2, 29, TRUE),
    Date(2023, 2, 29, FALSE), Date(1900, 2, 29, FALSE), Date(2024, 2, 30, FALSE),
    Date(2024, 4, 31, FALSE), Date(2024, 13, 1, FALSE), Date(2024, 0, 15, FALSE),
    Date(2024, 1, 0, FALSE), Date(2024, 1, 32, FALSE) }

\* Times of day, with whether the clock has them.
TrialTimes ==
  { Time(0, 0, 0, TRUE), Time(0, 0, 1, TRUE), Time(12, 30, 30, TRUE),
    Time(23, 59, 59, TRUE),
    Time(23, 59, 60, FALSE), Time(23, 60, 0, FALSE), Time(25, 0, 0, FALSE) }

\* Texts that are not of the format "yyyy-MM-dd HH:mm:ss".
MalformedTexts ==
  LET date == Date(2024, 1, 15, TRUE)
      text == formatDateTime(date, Time(12, 30, 30, TRUE))
  IN { <<>>,
       formatDate(date),
       [text EXCEPT ![11] = "T"],
       text \o <<"Z">>,
       [text EXCEPT ![5] = "/", ![8] = "/"],
       [text EXCEPT ![1] = "x"],
       <<"2", "0", "2", "4", "-", "1", "-", "5", " ", "0", ":", "0", ":", "0">> }

\* The allowed days handed to startImport: earliest and latest.
TrialWindows ==
  { << Date(2024, 1, 1, TRUE), Date(2024, 1, 31, TRUE) >>,
    << Date(2023, 12, 31, TRUE), Date(2024, 1, 1, TRUE) >>,
    << Date(2024, 2, 1, TRUE), Date(2024, 2, 29, TRUE) >>,
    << Date(2024, 1, 15, TRUE), Date(2024, 1, 15, TRUE) >> }

NoDate == Date(0, 0, 0, FALSE)

NoTime == Time(0, 0, 0, FALSE)

InitDates ==
  /\ PipelineIdle
  /\ \E window \in TrialWindows :
       \/ \E date \in TrialDates, time \in TrialTimes :
            trial = [fn |-> "isDateInRange", dateStr |-> formatDateTime(date, time),
                     format |-> TRUE, date |-> date, time |-> time,
                     earliest |-> window[1], latest |-> window[2],
                     called |-> FALSE, result |-> FALSE]
       \/ \E text \in MalformedTexts :
            trial = [fn |-> "isDateInRange", dateStr |-> text,
                     format |-> FALSE, date |-> NoDate, time |-> NoTime,
                     earliest |-> window[1], latest |-> window[2],
                     called |-> FALSE, result |-> FALSE]

\* startImport sets the two bounds; isDateInRange is called with the text.
FilterRow ==
  /\ trial.fn = "isDateInRange"
  /\ ~trial.called
  /\ LET earliestAllowedDate == startOfDay(fromFormatDate(formatDate(trial.earliest)))
         latestAllowedDate == endOfDay(fromFormatDate(formatDate(trial.latest)))
     IN trial' = [trial EXCEPT
          !.called = TRUE,
          !.result = isDateInRangeOf(trial.dateStr, earliestAllowedDate, latestAllowedDate)]
  /\ UNCHANGED <<batchSize, mgrVars, envVars, srvVars>>

SpecDates == InitDates /\ [][FilterRow]_vars

\* ------------------------------------------------- csv-import.worker.ts
\* The worker of the older pipeline: its module-level state is the record
\* in `trial`, with the messages it has posted to the main thread and the
\* rows Papa.parse has delivered to it. BATCH_SIZE is batchSize.
WorkerLoaded ==
  [ fn |-> "worker", phase |-> "loaded",
    currentBatch |-> <<>>, totalParsed |-> 0, totalSkipped |-> 0, totalErrors |-> 0,
    rowIndex |-> 0, rows |-> <<>>, messages |-> <<>> ]

\* What the step callback can be handed: a row with or without data, with
\* or without parse errors.
WorkerRows == [created_at : Timestamps, hasData : BOOLEAN, hasErrors : BOOLEAN]

sendChunk(w) ==
  IF Len(w.currentBatch) > 0
    THEN [w EXCEPT
           !.messages = Append(@, [type |-> "CHUNK_READY", events |-> w.currentBatch,
                                   parsed |-> w.totalParsed, skipped |-> w.totalSkipped,
                                   errors |-> w.totalErrors]),
           !.currentBatch = <<>>]
    ELSE w

\* Mutant: a row outside the date range is dropped without being counted.
workerHandleParsedRow_SkipUncounted(w, row, rowIndex) ==
  LET umamiEvent == [idx |-> rowIndex, created_at |-> row.created_at]
  IN IF umamiEvent.created_at = "" THEN [w EXCEPT !.totalSkipped = @ + 1]
     ELSE IF ~isDateInRange(umamiEvent.created_at) THEN w
     ELSE LET w1 == [w EXCEPT !.currentBatch = Append(@, umamiEvent),
                              !.totalParsed = @ + 1]
          IN IF Len(w1.currentBatch) >= batchSize THEN sendChunk(w1) ELSE w1

\* handleParsedRow of the worker.
workerHandleParsedRow(w, row, rowIndex) ==
  LET umamiEvent == [idx |-> rowIndex, created_at |-> row.created_at]
  IN IF umamiEvent.created_at = "" THEN [w EXCEPT !.totalSkipped = @ + 1]
     ELSE IF ~isDateInRange(umamiEvent.created_at) THEN [w EXCEPT !.totalSkipped = @ + 1]
     ELSE LET w1 == [w EXCEPT !.currentBatch = Append(@, umamiEvent),
                              !.totalParsed = @ + 1]
          IN IF Len(w1.currentBatch) >= batchSize THEN sendChunk(w1) ELSE w1

\* onmessage, PARSE_START: reset, createDateRangeFilter (which throws on an
\* invalid date), parseCSV.
WorkerParseStart ==
  /\ trial.fn = "worker"
  /\ trial.phase = "loaded"
  /\ \E datesValid \in BOOLEAN :
       trial' = [trial EXCEPT
                  !.currentBatch = <<>>, !.totalParsed = 0, !.totalSkipped = 0,
                  !.totalErrors = 0, !.rowIndex = 0,
                  !.phase = IF datesValid THEN "parsing" ELSE "failed"]
  /\ UNCHANGED <<batchSize, mgrVars, envVars, srvVars>>

\* The step callback of parseCSV.
WorkerStep ==
  /\ trial.fn = "worker"
  /\ trial.phase = "parsing"
  /\ Len(trial.rows) < MaxRows
  /\ \E row \in WorkerRows :
       LET w0 == [trial EXCEPT !.rows = Append(@, row)]
           w1 == IF row.hasData
                   THEN [workerHandleParsedRow(w0, row, w0.rowIndex)
                           EXCEPT !.rowIndex = @ + 1]
                   ELSE w0
       IN trial' = IF row.hasErrors THEN [w1 EXCEPT !.totalErrors = @ + 1] ELSE w1
  /\ UNCHANGED <<batchSize, mgrVars, envVars, srvVars>>

\* The complete callback of parseCSV.
WorkerComplete ==
  /\ trial.fn = "worker"
  /\ trial.phase = "parsing"
  /\ LET w1 == sendChunk(trial)
     IN trial' = [w1 EXCEPT
                   !.messages = Append(@, [type |-> "COMPLETE", events |-> <<>>,
                                           parsed |-> w1.totalParsed,
                                           skipped |-> w1.totalSkipped,
                                           errors |-> w1.totalErrors]),
                   !.phase = "complete"]
  /\ UNCHANGED <<batchSize, mgrVars, envVars, srvVars>>

\* The error callback of parseCSV.
WorkerError ==
  /\ trial.fn = "worker"
  /\ trial.phase = "parsing"
  /\ trial' = [trial EXCEPT
                !.messages = Append(@, [type |-> "ERROR"]),
                !.phase = "error"]
  /\ UNCHANGED <<batchSize, mgrVars, envVars, srvVars>>

\* onmessage, CANCEL: self.close().
WorkerCancel ==
  /\ trial.fn = "worker"
  /\ trial.phase \in {"loaded", "parsing"}
  /\ trial' = [trial EXCEPT !.phase = "closed"]
  /\ UNCHANGED <<batchSize, mgrVars, envVars, srvVars>>

InitWorker == PipelineIdle /\ trial = WorkerLoaded

NextWorker ==
  \/ WorkerParseStart
  \/ WorkerStep
  \/ WorkerComplete
  \/ WorkerError
  \/ WorkerCancel

SpecWorker == InitWorker /\ [][NextWorker]_vars

\* ------------------------------------------------------------- claims
Terminal == {"completed", "failed"}

Awaiting == { i \in DOMAIN fetches : fetches[i] = "awaiting" }

\* The events of the batches posted so far, in the order of the POSTs.
RECURSIVE Concat(_)
Concat(batches) ==
  IF batches = <<>> THEN <<>> ELSE Head(batches).events \o Concat(Tail(batches))

\* The events the filters of handleParsedRow let through, in file order.
AcceptedEvents ==
  LET all == [k \in 1..Len(rows) |->
               [idx |-> k, created_at |-> rows[k].created_at, valid |-> rows[k].valid]]
  IN SelectSeq(all, LAMBDA e : e.created_at # "" /\ isDateInRange(e.created_at))

\* C1: at every moment at most one batch upload request of the import is
\* in flight.
C1_OneUploadInFlight == Cardinality(Awaiting) <= 1

\* C2: a batch request that reaches a session whose status is completed or
\* failed is answered with an error, and leaves the session's status and
\* importedEvents and the event store unchanged.
C2_TerminalRejects ==
  [][\A i \in DOMAIN requests :
       (requests[i].pc = "sent" /\ requests'[i].pc # "sent" /\ session.status \in Terminal)
         => /\ requests'[i].pc = "done"
            /\ ~requests'[i].reply.ok
            /\ requests'[i].reply.status \in {400, 403}
            /\ session' = session
            /\ store' = store]_vars

\* A request was turned away because the import had already completed.
C2_Witness ==
  /\ session.status = "completed"
  /\ \E i \in DOMAIN requests : requests[i].reply.error = "Import already completed"

\* C3: when the insert throws, nothing is stored; the handler then sets the
\* status to failed, leaves importedEvents as it was and answers 500; and a
\* batch that reaches the failed session is answered with an error and
\* changes nothing.
C3_InsertFailureFailsFast ==
  [][\A i \in DOMAIN requests :
       /\ (requests[i].pc = "insert" /\ requests'[i].pc = "fail")
            => (store' = store /\ session' = session)
       /\ (requests[i].pc = "insert" /\ requests'[i].pc # "insert" /\ store' = store)
            => requests'[i].pc = "fail"
       /\ (requests[i].pc = "fail" /\ requests'[i].pc # "fail")
            => /\ session'.status = "failed"
               /\ session'.importedEvents = session.importedEvents
               /\ store' = store
               /\ requests'[i].pc = "done"
               /\ requests'[i].reply.status = 500
               /\ ~requests'[i].reply.ok
       /\ (requests[i].pc = "sent" /\ requests'[i].pc # "sent" /\ session.status = "failed")
            => /\ requests'[i].pc = "done"
               /\ ~requests'[i].reply.ok
               /\ session' = session
               /\ store' = store]_vars

\* An insert threw, the session is failed and a later batch was refused.
C3_Witness ==
  /\ session.status = "failed"
  /\ \E i \in DOMAIN requests : requests[i].reply.status = 500
  /\ \E j \in DOMAIN requests : requests[j].reply.error = "Import has failed"

\* C4: a session that has reached completed or failed never changes its
\* status again.
C4_TerminalIsFinal ==
  [][session.status \in Terminal => session'.status = session.status]_vars

\* C5: a file none of whose rows is accepted makes the client post exactly
\* one batch, empty and flagged isLastBatch; once that request has been
\* answered the session is completed and the client has reported success.
C5_EmptyFileCompletes ==
  ( /\ parser = "complete"
    /\ ~cancelled
    /\ AcceptedEvents = <<>>
    /\ \A i \in DOMAIN fetches :
         fetches[i] = "responded" /\ requests[i].reply.status # 403 )
  => /\ posted = << [events |-> <<>>, isLastBatch |-> TRUE] >>
     /\ session.status = "completed"
     /\ completions = << [success |-> TRUE, message |-> "Import completed successfully"] >>

\* C6: the accepted rows leave the client as consecutive batches: no batch
\* holds more than BATCH_SIZE events, every batch not flagged isLastBatch
\* holds exactly BATCH_SIZE events, only the batch sent last is flagged,
\* and once parsing has completed exactly one batch is flagged and the
\* batches together are the accepted rows in file order.
C6_Batching ==
  /\ \A i \in DOMAIN posted :
       /\ Len(posted[i].events) <= batchSize
       /\ ~posted[i].isLastBatch => Len(posted[i].events) = batchSize
       /\ posted[i].isLastBatch => i = Len(posted)
  /\ parsingComplete =>
       LET accepted == AcceptedEvents
       IN /\ Len(posted) = (Len(accepted) \div batchSize) + 1
          /\ posted[Len(posted)].isLastBatch
          /\ Len(posted[Len(posted)].events) = Len(accepted) % batchSize
          /\ Concat(posted) = accepted

\* Three batches of sizes BATCH_SIZE, BATCH_SIZE and 1, the last one flagged.
C6_Witness ==
  /\ parsingComplete
  /\ Len(posted) = 3
  /\ Len(posted[1].events) = batchSize
  /\ Len(posted[2].events) = batchSize
  /\ Len(posted[3].events) = 1
  /\ posted[3].isLastBatch

\* C7: "Import completed successfully" is reported only in a state where
\* parsing has finished, no upload request is in flight and no response
\* has reported quotaExceeded.
C7_SuccessOnlyWhenDone ==
  [][( /\ Len(completions') > Len(completions)
       /\ completions'[Len(completions')].message = "Import completed successfully" )
      => /\ parser' = "complete"
         /\ \A i \in DOMAIN fetches' : fetches'[i] # "awaiting"
         /\ \A i \in DOMAIN fetches' :
              fetches'[i] = "responded" => ~requests'[i].reply.quotaExceeded]_vars

\* The upload of request i has failed: fetch rejected, or the response was
\* not OK.
UploadFailed(i) ==
  \/ fetches[i] = "rejected"
  \/ fetches[i] = "responded" /\ ~requests[i].reply.ok

\* C8: no event is posted twice; when an upload fails the client reports
\* failure; and after an upload has failed no further request is posted.
C8_NoRetryFailFast ==
  /\ [](\A i, j \in DOMAIN posted :
          \A a \in DOMAIN posted[i].events, b \in DOMAIN posted[j].events :
            posted[i].events[a].idx = posted[j].events[b].idx => (i = j /\ a = b))
  /\ [][ /\ \A i \in DOMAIN fetches :
             ( /\ fetches[i] = "awaiting"
               /\ \/ fetches'[i] = "rejected"
                  \/ fetches'[i] = "responded" /\ ~requests[i].reply.ok )
             => completions' =
                  Append(completions, [success |-> FALSE, message |-> "Upload failed"])
         /\ (\E i \in DOMAIN fetches : UploadFailed(i)) => posted' = posted ]_vars

\* An upload failed while the parser still had an accepted row to deliver,
\* and that row reached no batch.
C8_Witness ==
  /\ ~cancelled
  /\ \E i \in DOMAIN fetches : UploadFailed(i)
  /\ \A i \in DOMAIN fetches :
       ~(fetches[i] = "responded" /\ requests[i].reply.quotaExceeded)
  /\ rows # <<>>
  /\ isDateInRange(rows[Len(rows)].created_at)
  /\ \A i \in DOMAIN posted :
       \A a \in DOMAIN posted[i].events : posted[i].events[a].idx # Len(rows)
  /\ \A a \in DOMAIN currentBatch : currentBatch[a].idx # Len(rows)

\* The response to request i was a success carrying quotaExceeded.
QuotaStopped(i) ==
  fetches[i] = "responded" /\ requests[i].reply.ok /\ requests[i].reply.quotaExceeded

\* C9: on a successful response carrying quotaExceeded the client reports
\* success with the quota message; afterwards it posts no further request
\* and adds no row to a batch.
C9_QuotaSoftStop ==
  [][ /\ \A i \in DOMAIN fetches :
         ( /\ fetches[i] = "awaiting"
           /\ fetches'[i] = "responded"
           /\ requests[i].reply.ok
           /\ requests[i].reply.quotaExceeded )
         => completions' = Append(completions, [success |-> TRUE, message |-> "quota"])
      /\ (\E i \in DOMAIN fetches : QuotaStopped(i))
           => (posted' = posted /\ currentBatch' = currentBatch) ]_vars

\* After the quota stop the parser delivered an accepted row, which reached
\* no batch; nothing else had stopped the client.
C9_Witness ==
  /\ ~cancelled
  /\ \E i \in DOMAIN fetches : QuotaStopped(i)
  /\ \A i \in DOMAIN fetches : ~UploadFailed(i)
  /\ rows # <<>>
  /\ isDateInRange(rows[Len(rows)].created_at)
  /\ \A i \in DOMAIN posted :
       \A a \in DOMAIN posted[i].events : posted[i].events[a].idx # Len(rows)
  /\ \A a \in DOMAIN currentBatch : currentBatch[a].idx # Len(rows)

\* C10: when the last request the client posts is answered with
\* quotaExceeded, and every request has been handled, the session's status
\* is completed.
C10_QuotaFinalizesSession ==
  ( /\ posted # <<>>
    /\ \A i \in DOMAIN requests : requests[i].pc = "done"
    /\ \A i \in DOMAIN fetches : fetches[i] = "responded" /\ requests[i].reply.ok
    /\ QuotaStopped(Len(posted)) )
  => session.status = "completed"

\* C11: cancellation is cooperative. The call of terminate() itself posts
\* nothing and leaves every upload and every request as it is; after it no
\* row is added to the batch and no request is posted; and an upload that
\* is in flight stays in flight until its response arrives or its fetch
\* rejects.
C11_CooperativeCancel ==
  [][ /\ (~cancelled /\ cancelled')
           => (fetches' = fetches /\ requests' = requests /\ posted' = posted
               /\ currentBatch' = currentBatch)
      /\ cancelled
           => /\ posted' = posted
              /\ currentBatch' = currentBatch
              /\ \A i \in DOMAIN fetches :
                   \/ fetches'[i] = fetches[i]
                   \/ /\ fetches[i] = "awaiting"
                      /\ fetches'[i] = "responded"
                      /\ requests[i].pc = "done"
                   \/ /\ fetches[i] = "awaiting"
                      /\ fetches'[i] = "rejected" ]_vars

\* After the cancellation the parser delivered an accepted row, which
\* reached no batch, while an upload is still in flight whose request the
\* server has meanwhile handled with success; nothing else had stopped the
\* client.
C11_Witness ==
  /\ cancelled
  /\ \E i \in Awaiting : requests[i].pc = "done" /\ requests[i].reply.ok
  /\ \A i \in DOMAIN fetches : ~UploadFailed(i) /\ ~QuotaStopped(i)
  /\ rows # <<>>
  /\ isDateInRange(rows[Len(rows)].created_at)
  /\ \A i \in DOMAIN posted :
       \A a \in DOMAIN posted[i].events : posted[i].events[a].idx # Len(rows)
  /\ \A a \in DOMAIN currentBatch : currentBatch[a].idx # Len(rows)

\* C12: a batch is all-or-nothing. A request that has ended with an error
\* response has none of its batch's events in the event store, and a
\* request that has ended with success has every event it accepted in the
\* store; importedEvents changes only in the step in which a request
\* becomes successful, and then by the number of events of that request.
C12_AllOrNothing ==
  /\ [](\A i \in DOMAIN requests :
          requests[i].pc = "done" =>
            IF requests[i].reply.ok
              THEN Range(requests[i].transformedEvents) \subseteq store
              ELSE Range(posted[i].events) \cap store = {})
  /\ [][ session'.importedEvents # session.importedEvents
           => \E i \in DOMAIN requests :
                /\ requests[i].reply = NoReply
                /\ requests'[i].reply.ok
                /\ session'.importedEvents
                     = session.importedEvents + Len(requests[i].transformedEvents) ]_vars

\* Every request was issued after the ones before it had settled.
SequentiallyIssued == \A i \in DOMAIN requests : requests[i].issuedAlone

\* C13: importedEvents never decreases; the step that makes a request
\* successful increases it by the importedCount of the response; and when
\* sequentially issued requests have all been handled, importedEvents is
\* the number of events in the event store.
C13_ImportedEventsAccounting ==
  /\ [][ /\ session'.importedEvents >= session.importedEvents
         /\ \A i \in DOMAIN requests :
              (requests[i].reply = NoReply /\ requests'[i].reply.ok)
                => session'.importedEvents
                     = session.importedEvents + requests'[i].reply.importedCount ]_vars
  /\ []( ( /\ SequentiallyIssued
           /\ \A i \in DOMAIN requests : requests[i].pc = "done" )
         => session.importedEvents = Cardinality(store) )

\* The events request i hands to the insert were admitted under the
\* snapshot the tracker takes from the store: each has a creation
\* timestamp in a month of the window, and no month gets more events than
\* it had capacity left.
AdmittedUnder(events, tracker) ==
  /\ \A e \in Range(events) : e.created_at # "" /\ e.created_at \in DOMAIN tracker
  /\ \A mo \in DOMAIN tracker :
       Cardinality({e \in Range(events) : e.created_at = mo}) > 0
         => /\ tracker[mo] > 0
            /\ Cardinality({e \in Range(events) : e.created_at = mo}) <= tracker[mo]

\* C14: every event in the event store has a non-empty creation timestamp
\* in a month of the window and was handed to the insert by a request whose
\* quota snapshot had capacity left for it in that month; an event without
\* creation timestamp, outside the window or refused by the tracker is
\* never inserted.
C14_StoredEventsAdmitted ==
  /\ [](\A e \in store :
          /\ e.created_at # ""
          /\ e.created_at \in Months
          /\ \E i \in DOMAIN requests :
               e \in Range(requests[i].transformedEvents) /\ e \in Range(posted[i].events))
  /\ [][\A i \in DOMAIN requests :
          /\ (requests[i].pc = "quota" /\ requests'[i].pc = "insert")
               => AdmittedUnder(requests'[i].transformedEvents, QuotaTrackerCreate)
          /\ requests'[i].pc # "insert"
               => (store' \ store) \cap Range(posted[i].events)
                    \subseteq Range(requests[i].transformedEvents) ]_vars

\* A request has stored an event and has passed over an event without
\* creation timestamp and an event of a month of the window that the
\* tracker refused.
C14_Witness ==
  \E i \in DOMAIN posted :
    /\ requests[i].pc = "done"
    /\ requests[i].reply.ok
    /\ requests[i].skippedDueToQuota > 0
    /\ \E e \in Range(posted[i].events) : e \in store
    /\ \E e \in Range(posted[i].events) : e.created_at = "" /\ e \notin store
    /\ \E e \in Range(posted[i].events) : e.created_at \in Months /\ e.valid /\ e \notin store

\* C15: a request rejected with a 400 or 404 answer leaves the session's
\* status, platform and importedEvents as they were before the request:
\* when it is the only request the handler has taken up so far, the session
\* is still the pending one the import was created with.
C15_RejectedLeavesSession ==
  \A i \in DOMAIN requests :
    ( /\ requests[i].pc = "done"
      /\ requests[i].reply.status \in {400, 404}
      /\ \A j \in DOMAIN requests \ {i} : requests[j].pc = "sent" )
    => session = [status |-> "pending", platform |-> Null, importedEvents |-> 0]

\* C16: a request whose events array is empty or longer than 10000 is
\* answered 400, and so is one with malformed parameters; a caller without
\* admin access is answered 403. The answer is given in the step that takes
\* the request up, before the session is loaded, and that step changes
\* neither the session nor the event store.
C16_ValidationAuthMutateNothing ==
  [][\A i \in DOMAIN requests :
       LET invalid == Len(posted[i].events) = 0 \/ Len(posted[i].events) > 10000
           rejected == requests'[i].reply.error \in {"Validation error", "Forbidden"}
       IN /\ (requests[i].pc = "sent" /\ requests'[i].pc # "sent" /\ invalid)
               => requests'[i].reply = ErrorReply(400, "Validation error")
          /\ (requests[i].reply = NoReply /\ rejected)
               => /\ requests[i].pc = "sent"
                  /\ requests'[i].pc = "done"
                  /\ requests'[i].reply.status \in {400, 403}
                  /\ requests'[i].importRecord = NewRequest.importRecord
                  /\ session' = session
                  /\ store' = store ]_vars

\* A batch of 10001 events was answered 400 and a caller without access
\* 403, with the session and the event store as they were.
C16_Witness ==
  /\ \E i \in DOMAIN requests :
       /\ Len(posted[i].events) > 10000
       /\ requests[i].reply = ErrorReply(400, "Validation error")
  /\ \E i \in DOMAIN requests : requests[i].reply = ErrorReply(403, "Forbidden")
  /\ session = [status |-> "pending", platform |-> Null, importedEvents |-> 0]
  /\ store = {}

\* C17: when a request flagged isLastBatch is answered with success, the
\* session's status is completed at that moment, whatever the request did
\* with its events.
C17_LastBatchCompletes ==
  [][\A i \in DOMAIN requests :
       ( /\ requests[i].pc # "done"
         /\ requests'[i].pc = "done"
         /\ requests'[i].reply.ok
         /\ posted[i].isLastBatch )
       => session'.status = "completed" ]_vars

\* Two flagged requests were answered with success, one that imported
\* events and one that admitted none because of the quota.
C17_Witness ==
  /\ session.status = "completed"
  /\ \E i, j \in DOMAIN requests :
       /\ posted[i].isLastBatch /\ posted[j].isLastBatch
       /\ requests[i].pc = "done" /\ requests[j].pc = "done"
       /\ requests[i].reply.ok /\ requests[i].reply.importedCount > 0
       /\ requests[j].reply.ok /\ requests[j].reply.quotaExceeded

\* The events of the batch that fall in month mo, in the order of the batch.
EventsOf(events, mo) == SelectSeq(events, LAMBDA e : e.created_at = mo)

\* C18: for a batch whose events fall in two months, one without remaining
\* capacity in the snapshot and one with capacity for all its events, the
\* admission loop refuses every event of the first month and admits every
\* event of the second, in whatever order the events stand in the batch.
C18_AdmissionOrderIndependent ==
  (trial.fn = "admit" /\ trial.called) =>
    \A zero, other \in Months :
      ( /\ zero # other
        /\ \A e \in Range(trial.events) : e.created_at \in {zero, other}
        /\ EventsOf(trial.events, zero) # <<>>
        /\ EventsOf(trial.events, other) # <<>>
        /\ trial.tracker[zero] = 0
        /\ trial.tracker[other] >= Len(EventsOf(trial.events, other)) )
      => /\ trial.result.eventsWithinQuota = EventsOf(trial.events, other)
         /\ trial.result.skippedDueToQuota = Len(EventsOf(trial.events, zero))

\* A batch in which events of the month without capacity stand before,
\* between and after events of the other month went through the loop.
C18_Witness ==
  /\ trial.fn = "admit"
  /\ trial.called
  /\ trial.tracker["m1"] = 0
  /\ trial.tracker["m2"] = 2
  /\ [k \in 1..Len(trial.events) |-> trial.events[k].created_at] = <<"m1", "m2", "m1", "m2">>
  /\ trial.result.eventsWithinQuota = <<trial.events[2], trial.events[4]>>
  /\ trial.result.skippedDueToQuota = 2

\* a <= b on the days of the calendar
NotAfter(a, b) ==
  \/ a.y < b.y
  \/ a.y = b.y /\ a.m < b.m
  \/ a.y = b.y /\ a.m = b.m /\ a.d <= b.d

January2024 == << Date(2024, 1, 1, TRUE), Date(2024, 1, 31, TRUE) >>

\* C19: the date filter accepts a timestamp exactly when it is of the
\* format, names a date and a time that exist, and its day is neither
\* before the earliest nor after the latest allowed day; any other text is
\* rejected, with a result. With the window 2024-01-01..2024-01-31,
\* 2024-01-01 00:00:00 and 2024-01-31 23:59:59 are accepted, 2023-12-31
\* 23:59:59 and 2024-02-01 00:00:00 are rejected.
C19_DateFilter ==
  (trial.fn = "isDateInRange" /\ trial.called) =>
    /\ trial.result \in BOOLEAN
    /\ trial.result <=>
         ( /\ trial.format
           /\ trial.date.real
           /\ trial.time.real
           /\ NotAfter(trial.earliest, trial.date)
           /\ NotAfter(trial.date, trial.latest) )
    /\ <<trial.earliest, trial.latest>> = January2024 =>
         /\ trial.dateStr = <<"2","0","2","4","-","0","1","-","0","1"," ","0","0",":","0","0",":","0","0">>
              => trial.result
         /\ trial.dateStr = <<"2","0","2","4","-","0","1","-","3","1"," ","2","3",":","5","9",":","5","9">>
              => trial.result
         /\ trial.dateStr = <<"2","0","2","3","-","1","2","-","3","1"," ","2","3",":","5","9",":","5","9">>
              => ~trial.result
         /\ trial.dateStr = <<"2","0","2","4","-","0","2","-","0","1"," ","0","0",":","0","0",":","0","0">>
              => ~trial.result

\* The last second of the latest allowed day went through the filter and
\* was accepted.
C19_Witness ==
  /\ trial.fn = "isDateInRange"
  /\ trial.called
  /\ <<trial.earliest, trial.latest>> = January2024
  /\ trial.dateStr = <<"2","0","2","4","-","0","1","-","3","1"," ","2","3",":","5","9",":","5","9">>
  /\ trial.result

\* The row passes the two filters of handleParsedRow.
PassesFilters(created_at) == created_at # "" /\ isDateInRange(created_at)

\* C20: no posted batch and no batch being filled holds a row whose
\* created_at is empty or fails the date filter; the delivery of such a row
\* changes nothing in the client; and as long as nothing has stopped the
\* client, every row delivered so far that passes the filters is in a
\* batch, the rows after a skipped one included.
C20_SkippedRowsNotUploaded ==
  /\ [](\A i \in DOMAIN posted :
          \A a \in DOMAIN posted[i].events : PassesFilters(posted[i].events[a].created_at))
  /\ [](\A a \in DOMAIN currentBatch : PassesFilters(currentBatch[a].created_at))
  /\ []((~aborted /\ ~quotaExceeded) => Concat(posted) \o currentBatch = AcceptedEvents)
  /\ [][(Len(rows') > Len(rows) /\ ~PassesFilters(rows'[Len(rows')].created_at))
          => UNCHANGED <<mgrVars, parser, posted, fetches, completions>>]_vars

\* A row without created_at and a row outside the date range were
\* delivered, and the row after them was uploaded.
C20_Witness ==
  /\ Len(rows) = 3
  /\ rows[1].created_at = ""
  /\ rows[2].created_at = "old"
  /\ PassesFilters(rows[3].created_at)
  /\ \E i \in DOMAIN posted : \E a \in DOMAIN posted[i].events : posted[i].events[a].idx = 3

\* What request i, about to run the admission loop, makes of its batch.
Admission(i) == admit(posted[i].events, QuotaTrackerCreate, <<>>, 0)

\* The answers of a request that has passed the site lookup, with count[i]
\* the importedCount expected of batch i for the batches in `counted`:
\* quotaExceeded is set exactly when the loop admitted nothing; a counted
\* batch is answered, at once or after the insert, with success,
\* importedCount = count and no flag; and a response without the flag does
\* not stop the client.
QuotaAnswers(count, counted) ==
  /\ \A i \in DOMAIN requests :
       /\ ( /\ requests[i].pc = "quota"
            /\ requests'[i].pc # "quota"
            /\ requests'[i].reply.status # 404 )
          => /\ requests'[i].reply.ok
                  => (requests'[i].reply.quotaExceeded <=>
                        Len(Admission(i).eventsWithinQuota) = 0)
             /\ i \in counted
                  => IF requests'[i].pc = "insert"
                       THEN Len(requests'[i].transformedEvents) = count[i]
                       ELSE requests'[i].reply = SuccessReply(count[i], FALSE)
       /\ (requests[i].pc = "progress" /\ requests'[i].reply.ok)
            => requests'[i].reply = SuccessReply(Len(requests[i].transformedEvents), FALSE)
  /\ \A i \in DOMAIN fetches :
       ( /\ fetches[i] = "awaiting"
         /\ fetches'[i] = "responded"
         /\ requests[i].reply.ok
         /\ ~requests[i].reply.quotaExceeded )
       => (aborted' = aborted /\ quotaExceeded' = quotaExceeded)

AdmittedCount(i) == Len(Admission(i).eventsWithinQuota)

\* Some events of the batch are admitted.
SomeAdmitted(i) == AdmittedCount(i) > 0

\* Some events of the batch are admitted and others skipped for quota.
AdmittedAndSkipped(i) == AdmittedCount(i) > 0 /\ Admission(i).skippedDueToQuota > 0

InsertedCount(i) == Len(transform(Admission(i).eventsWithinQuota))

C22_WritesOrdered ==
  /\ []((store # {} \/ session.importedEvents > 0) => session.status # "pending")
  /\ [][ /\ store' # store
              => (session.status # "pending" /\ session' = session)
         /\ session'.importedEvents # session.importedEvents
              => /\ store' = store
                 /\ \E i \in DOMAIN requests :
                      /\ requests[i].pc = "progress"
                      /\ requests'[i].pc # "progress"
                      /\ Range(requests[i].transformedEvents) \subseteq store
         /\ (session'.status # session.status /\ session'.status \in Terminal)
              => /\ store' = store
                 /\ \E i \in DOMAIN requests :
                      /\ requests[i].pc \in {"finalize", "fail"}
                      /\ requests'[i].pc = "done"
                      /\ requests[i].pc = "finalize"
                           => Range(requests[i].transformedEvents) \subseteq store ]_vars
  /\ [](SequentiallyIssued =>
          \A i \in DOMAIN requests :
            requests[i].pc = "progress"
              => /\ session.status = "processing"
                 /\ requests[i].transformedEvents # <<>>
                 /\ Range(requests[i].transformedEvents) \subseteq store)

\* The second request of a sequentially issued import has inserted its
\* events and not yet written the progress: the session is in processing.
C22_Witness ==
  /\ SequentiallyIssued
  /\ Len(requests) = 2
  /\ requests[1].pc = "done"
  /\ requests[2].pc = "progress"
  /\ session.status = "processing"
  /\ Range(requests[2].transformedEvents) \subseteq store

\* C23: the completion callback is invoked at most once per import; in
\* particular no success is reported after a failure was reported.
C23_CompletionAtMostOnce ==
  /\ Len(completions) <= 1
  /\ \A i, j \in DOMAIN completions :
       (i < j /\ ~completions[i].success) => ~completions[j].success

\* C24: whenever the client reports a successful import (onComplete with
\* success = true), the session of that import is in status completed.
C24_SuccessMeansCompleted ==
  [][(/\ Len(completions') > Len(completions)
      /\ completions'[Len(completions')].success)
       => session'.status = "completed"]_vars

\* C25: the batch flagged isLastBatch is the last one the server handles:
\* once the server has finalized the session on it, no other batch of the
\* import is in flight or still to be handled, and in a run without
\* failures no batch is rejected with "Import already completed".
C25_LastBatchIsLast ==
  /\ \A i \in DOMAIN requests :
       (posted[i].isLastBatch /\ requests[i].pc = "done" /\ requests[i].reply.ok)
         => \A j \in DOMAIN requests : requests[j].pc = "done"
  /\ ( /\ ~cancelled
       /\ parser # "error"
       /\ \A j \in DOMAIN requests :
            fetches[j] # "rejected" /\ requests[j].reply.status # 500 )
     => \A j \in DOMAIN requests :
          requests[j].reply.error # "Import already completed"

\* C26: an import that is not cancelled and whose uploads all return
\* eventually has its completion callback invoked, whatever the number of
\* rows; and it never comes to rest (parser ended, no upload awaited)
\* without the callback having been invoked.
C26_ClientTerminates ==
  /\ <>(cancelled \/ completions # <<>>)
  /\ []((~cancelled /\ parser # "parsing" /\ Awaiting = {}) => completions # <<>>)

\* The file had no rows at all and its import was reported.
C26_Witness ==
  /\ ~cancelled
  /\ rows = <<>>
  /\ parser = "complete"
  /\ Awaiting = {}
  /\ completions # <<>>

\* An import the claim of C27 is not about: cancelled, ended by a parse
\* error, or with a request that did not return or was refused because the
\* user has no access to the site.
Excused ==
  \/ cancelled
  \/ parser = "error"
  \/ \E i \in DOMAIN fetches : fetches[i] = "rejected"
  \/ \E i \in DOMAIN requests : requests[i].reply.status = 403

\* C27: the session of an import that is not cancelled and whose requests
\* all return eventually reaches completed or failed, whatever the number
\* of accepted rows and the quota outcome; the import never comes to rest
\* (parser ended with complete, every upload answered) with the session in
\* pending or processing.
C27_SessionTerminates ==
  /\ <>(Excused \/ session.status \in Terminal)
  /\ []( ( /\ ~Excused
           /\ parser = "complete"
           /\ \A i \in DOMAIN fetches : fetches[i] = "responded" )
         => session.status \in Terminal )

\* Where row k of the file is: the positions in posted batches (i, a) and in
\* the batch being filled (0, a) that hold the event made of it.
Places(k) ==
  { <<i, a>> \in (DOMAIN posted) \X (1..batchSize) :
      a \in DOMAIN posted[i].events /\ posted[i].events[a].idx = k }
    \cup { <<0, a>> : a \in { b \in DOMAIN currentBatch : currentBatch[b].idx = k } }

\* C28: in a run that is neither cancelled, failed nor quota-stopped, the
\* events of the posted batches in the order of the POSTs, followed by the
\* batch being filled, are the rows that passed the two filters, in file
\* order; when the parse has completed they are all posted; and every such
\* row is in exactly one batch, every other row in none.
C28_ClientNoLossNoDup ==
  (~aborted /\ ~quotaExceeded)
    => /\ Concat(posted) \o currentBatch = AcceptedEvents
       /\ parser = "complete" => (currentBatch = <<>> /\ Concat(posted) = AcceptedEvents)
       /\ \A k \in DOMAIN rows :
            Cardinality(Places(k)) = IF PassesFilters(rows[k].created_at) THEN 1 ELSE 0

\* Three rows, one of them skipped, were parsed to the end and the two
\* accepted ones went out in a full batch, followed by the empty final one.
C28_Witness ==
  /\ ~aborted /\ ~quotaExceeded /\ ~cancelled
  /\ parser = "complete"
  /\ Len(rows) = 3
  /\ Len(AcceptedEvents) = 2
  /\ Len(posted) = 2
  /\ Concat(posted) = AcceptedEvents

\* C29: across any sequence or interleaving of batch requests, the events
\* in the store of a calendar month never outnumber that month's capacity.
C29_QuotaNeverExceeded ==
  \A mo \in Months :
    Cardinality({ e \in store : e.created_at = mo }) <= monthlyLimit[mo]

\* The events of the CHUNK_READY messages, in the order they were posted.
RECURSIVE SentEvents(_)
SentEvents(messages) ==
  IF messages = <<>> THEN <<>>
  ELSE (IF Head(messages).type = "CHUNK_READY" THEN Head(messages).events ELSE <<>>)
         \o SentEvents(Tail(messages))

\* The events of the delivered rows that the worker's filters let through,
\* numbered by the handled rows before them.
RECURSIVE WorkerAcceptedEvents(_, _)
WorkerAcceptedEvents(delivered, rowIndex) ==
  IF delivered = <<>> THEN <<>>
  ELSE LET row == Head(delivered)
       IN IF ~row.hasData THEN WorkerAcceptedEvents(Tail(delivered), rowIndex)
          ELSE (IF PassesFilters(row.created_at)
                  THEN << [idx |-> rowIndex, created_at |-> row.created_at] >>
                  ELSE <<>>)
                 \o WorkerAcceptedEvents(Tail(delivered), rowIndex + 1)

\* The messages that carry the counters.
CountMessages ==
  SelectSeq(trial.messages, LAMBDA m : m.type \in {"CHUNK_READY", "COMPLETE"})

\* C30: after every handled row totalParsed + totalSkipped is the number of
\* rows handled since PARSE_START; totalParsed is the number of events in
\* the chunks sent so far plus those of the unsent batch (which together
\* are the accepted rows, in order); and parsed, skipped and errors never
\* decrease from one CHUNK_READY or COMPLETE message to the next.
C30_WorkerCounters ==
  /\ trial.totalParsed + trial.totalSkipped = trial.rowIndex
  /\ trial.rowIndex = Len(SelectSeq(trial.rows, LAMBDA row : row.hasData))
  /\ trial.totalParsed = Len(SentEvents(trial.messages)) + Len(trial.currentBatch)
  /\ SentEvents(trial.messages) \o trial.currentBatch = WorkerAcceptedEvents(trial.rows, 0)
  /\ \A i, j \in DOMAIN CountMessages :
       i < j => /\ CountMessages[i].parsed <= CountMessages[j].parsed
                /\ CountMessages[i].skipped <= CountMessages[j].skipped
                /\ CountMessages[i].errors <= CountMessages[j].errors

\* Two accepted rows went out as a chunk, a third row was skipped, and the
\* parse completed: the COMPLETE message reports more than the chunk did.
C30_Witness ==
  /\ trial.fn = "worker"
  /\ trial.phase = "complete"
  /\ Len(trial.messages) = 2
  /\ trial.messages[1].type = "CHUNK_READY"
  /\ trial.messages[1].parsed = 2 /\ trial.messages[1].skipped = 0
  /\ trial.messages[2].type = "COMPLETE"
  /\ trial.messages[2].parsed = 2 /\ trial.messages[2].skipped = 1

====
